---- MODULE Spec2Model ----
(***************************************************************************)
(* Model of Scheduler.py: the round-robin scheduler.  Teams are numbered   *)
(* 1..N (a Team object is identified by its name).  A week of the          *)
(* WeeklySchedule is the set of its matchups, each matchup the set of the  *)
(* two teams named on its "X vs. Y" line.                                  *)
(***************************************************************************)
EXTENDS Integers, Sequences, FiniteSets, TLC

\* Bounds of the model.
MaxTeams == 8           \* largest number of teams
FreeTeams == 6          \* largest number of teams with every random draw followed
MaxWeeks == 5           \* most weeks requested with up to FreeTeams teams
MaxScriptedWeeks == 8   \* most weeks requested with more than FreeTeams teams
MaxRetries == 1         \* cap of retries_needed
MaxTrials == 2          \* most trials of a debug session
MaxTrialWeeks == 4      \* most weeks requested in a debug session

VARIABLES
    names,              \* preMain: the team names (a set of team ids)
    weeks,              \* preMain: the number of weeks requested
    debug_mode,         \* preMain: debug mode flag
    trials,             \* preMain: number of trials (1 in standard execution)
    trial,              \* preMain: index of the running trial (for i in range(trials))
    data,               \* global data
    retries_needed,     \* global retries_needed
    dead_ends,          \* history: IndexErrors caught since main was entered
    schedule,           \* Team.schedule, per team
    already_played_set, \* Team.already_played_set, per team
    s,                  \* the WeeklySchedule: [schedule, next_index]
    pass_i,             \* main: loop variable i of the pass loop
    rs_weeks,           \* runScheduler: parameter weeks
    w,                  \* runScheduler: loop variable w
    i,                  \* runScheduler: loop variable i
    unscheduled_teams,  \* runScheduler
    scheduled_teams,    \* runScheduler
    retVal,             \* main
    retry,              \* main
    pc                  \* position in main / runScheduler

vars == <<names, weeks, debug_mode, trials, trial, data, retries_needed,
          dead_ends, schedule, already_played_set, s, pass_i, rs_weeks, w, i,
          unscheduled_teams, scheduled_teams, retVal, retry, pc>>

\* With more than FreeTeams teams the draws of random.shuffle and
\* random.choice in the first Len(Script) weeks of a pass are taken from
\* Script: Script[w+1][i+1] is <<next_team, match>> of matchup i of week w.
\* Every later draw is followed in full.  Matchup still requires
\* the scripted match to be one the code can choose.
Script ==
    << << <<1, 2>>, <<3, 4>>, <<5, 6>>, <<7, 8>> >>,
       << <<2, 3>>, <<4, 5>>, <<6, 7>>, <<8, 1>> >>,
       << <<1, 3>>, <<2, 5>>, <<4, 7>>, <<6, 8>> >> >>

\* Even team counts accepted by preMain (line 222), up to the bound.
TeamCounts == {n \in 2..MaxTeams : n % 2 = 0}

\* Week counts accepted by validatePosIntInput, up to the bounds.  With more
\* than FreeTeams teams they are the shortest run with a week of free draws
\* and the two longest runs: a run over MaxScriptedWeeks weeks passes through
\* the weeks of every shorter run.
WeekCounts(n) ==
    IF n <= FreeTeams THEN 1..MaxWeeks
    ELSE {k \in 1..MaxScriptedWeeks :
            k = Len(Script) + 1 \/ k >= MaxScriptedWeeks - 1}

----------------------------------------------------------------------------
\* main, lines 258-262

num_unique_matchups == Cardinality(names) - 1

\* ceil(weeks / num_unique_matchups)
num_passes_floor == (weeks \div num_unique_matchups) + 1
num_passes_truncated == weeks \div num_unique_matchups
num_passes ==
    IF weeks % num_unique_matchups = 0
    THEN weeks \div num_unique_matchups
    ELSE (weeks \div num_unique_matchups) + 1

\* the weeks argument main hands to runScheduler in pass p (lines 273-283)
PassWeeks(p) ==
    IF p < num_passes - 1 THEN num_unique_matchups
    ELSE IF weeks % num_unique_matchups = 0 THEN num_unique_matchups
    ELSE weeks % num_unique_matchups

\* list(map(Team, names)): every team with an empty schedule and an empty set
FreshSchedules == [t \in names |-> <<>>]
KeepSets == already_played_set
FreshSets == [t \in names |-> {}]
\* WeeklySchedule()
KeepWeeklySchedule == s
FreshWeeklySchedule == [schedule |-> <<>>, next_index |-> 0]

----------------------------------------------------------------------------
\* runScheduler helpers

iter_per_week == Cardinality(names) \div 2

testMatchNoSelf(match, unscheduled) ==
    LET test_set == unscheduled \ {match}
    IN  ~ \E team \in test_set :
            test_set \subseteq already_played_set[team]
testMatch(match, unscheduled) ==
    LET test_set == unscheduled \ {match}
    IN  ~ \E team \in test_set :
            test_set \subseteq (already_played_set[team] \cup {team})

setIsUnique(a_set, teams) ==
    \A team \in teams : already_played_set[team] # a_set

\* line 328: first round of potential matches
PotentialMatchesUnfiltered(next_team, unscheduled) == unscheduled
PotentialMatches(next_team, unscheduled) ==
    {a \in unscheduled : a \notin already_played_set[next_team]}

\* line 324: unscheduled_teams once next_team was popped
AfterPop(next_team) == unscheduled_teams \ {next_team}

\* lines 316 and 338: the condition under which matches is refined by
\* testMatch; already_played_or_self_size is w + 1
CheckAppliedLate(unscheduled) == Cardinality(unscheduled) - 1 <= w
CheckApplied(unscheduled) == Cardinality(unscheduled) - 1 <= w + 1

\* lines 338-339: refinement by testMatch, skipped while many teams are left
RefinedMatchesUnchecked(next_team, unscheduled) ==
    PotentialMatches(next_team, unscheduled)
RefinedMatches(next_team, unscheduled) ==
    IF CheckApplied(unscheduled)
    THEN {a \in PotentialMatches(next_team, unscheduled) : testMatch(a, unscheduled)}
    ELSE PotentialMatches(next_team, unscheduled)

\* lines 353-363: the matches that keep the already_played_sets unique
PreferredMatches(next_team, unscheduled, scheduled) ==
    {temp \in RefinedMatches(next_team, unscheduled) :
        /\ setIsUnique(already_played_set[next_team] \cup {temp}, scheduled)
        /\ setIsUnique(already_played_set[temp] \cup {next_team}, scheduled)}

\* lines 331-372: the teams that may become match.  unscheduled and scheduled
\* are the lists after next_team was popped and appended (lines 324-325).
\* The shuffle makes the order of matches arbitrary, so the first preferred
\* match found is any preferred match.  The empty set is the IndexError of
\* random.choice.
ChoicesPreferredOnly(next_team, unscheduled, scheduled) ==
    IF Cardinality(unscheduled) = 1 THEN unscheduled
    ELSE IF i = 0 THEN RefinedMatches(next_team, unscheduled)
    ELSE PreferredMatches(next_team, unscheduled, scheduled)
ChoicesNoPreference(next_team, unscheduled, scheduled) ==
    IF Cardinality(unscheduled) = 1 THEN unscheduled
    ELSE RefinedMatches(next_team, unscheduled)
Choices(next_team, unscheduled, scheduled) ==
    IF Cardinality(unscheduled) = 1 THEN unscheduled
    ELSE IF i = 0 THEN RefinedMatches(next_team, unscheduled)
    ELSE LET preferred == PreferredMatches(next_team, unscheduled, scheduled)
         IN  IF preferred # {} THEN preferred
             ELSE RefinedMatches(next_team, unscheduled)

\* The draws of the random generator the model follows.
Scripted == Cardinality(names) > FreeTeams /\ w < Len(Script)

DrawnTeam(next_team) ==
    IF Scripted THEN next_team = Script[w + 1][i + 1][1] ELSE TRUE

DrawnMatch(match) ==
    IF Scripted THEN match = Script[w + 1][i + 1][2] ELSE TRUE

\* setMatchForTeam: the schedules
setMatchSchedulesOneSided(team1, team2) ==
    [schedule EXCEPT ![team1] = Append(@, team2)]
setMatchSchedules(team1, team2) ==
    [t \in names |->
        IF t = team1 /\ t = team2 THEN schedule[t] \o <<team2, team1>>
        ELSE IF t = team1 THEN Append(schedule[t], team2)
        ELSE IF t = team2 THEN Append(schedule[t], team1)
        ELSE schedule[t]]

\* setMatchForTeam: the already_played_sets
setMatchSetsOneSided(team1, team2) ==
    [already_played_set EXCEPT ![team1] = @ \cup {team2}]
setMatchSets(team1, team2) ==
    [t \in names |->
        IF t = team1 /\ t = team2 THEN already_played_set[t] \cup {team1}
        ELSE IF t = team1 THEN already_played_set[t] \cup {team2}
        ELSE IF t = team2 THEN already_played_set[t] \cup {team1}
        ELSE already_played_set[t]]

\* line 378: unscheduled_teams.remove(match)
RemoveNothing(unscheduled, match) == unscheduled
RemoveMatch(unscheduled, match) == unscheduled \ {match}

\* line 381: the matchup joins the text of week next_index
AddMatchup(next_team, match) ==
    [s EXCEPT !.schedule[s.next_index + 1] = @ \cup {{next_team, match}}]

\* line 384
KeepIndex == s
IncrementIndex == [s EXCEPT !.next_index = @ + 1]

\* line 290
RetriesPlusTwo == retries_needed + 2
RetriesIncremented == retries_needed + 1

\* line 234
RetriesCarried == retries_needed
RetriesReset == 0

----------------------------------------------------------------------------
\* The state in which main has run lines 258-263 and enters its loops.
MainEntered ==
    /\ schedule' = FreshSchedules
    /\ already_played_set' = FreshSets
    /\ s' = FreshWeeklySchedule
    /\ pass_i' = 0
    /\ rs_weeks' = 0
    /\ w' = 0
    /\ i' = 0
    /\ unscheduled_teams' = {}
    /\ scheduled_teams' = {}
    /\ retVal' = TRUE
    /\ retry' = TRUE
    /\ dead_ends' = 0
    /\ pc' = "pass"

InitMain ==
    /\ schedule = [t \in names |-> <<>>]
    /\ already_played_set = [t \in names |-> {}]
    /\ s = [schedule |-> <<>>, next_index |-> 0]
    /\ pass_i = 0
    /\ rs_weeks = 0
    /\ w = 0
    /\ i = 0
    /\ unscheduled_teams = {}
    /\ scheduled_teams = {}
    /\ retVal = TRUE
    /\ retry = TRUE
    /\ dead_ends = 0
    /\ pc = "pass"
    /\ data = <<>>
    /\ retries_needed = 0
    /\ trial = 0

\* Standard execution (preMain, lines 244-246): one call of main.
Init ==
    /\ \E n \in TeamCounts : names = 1..n
    /\ weeks \in WeekCounts(Cardinality(names))
    /\ debug_mode = FALSE
    /\ trials = 1
    /\ InitMain

\* Debug mode (preMain, lines 228-235): trials calls of main.
InitTrials ==
    /\ \E n \in TeamCounts : names = 1..n
    /\ weeks \in 1..MaxTrialWeeks
    /\ debug_mode = TRUE
    /\ trials \in 1..MaxTrials
    /\ InitMain

----------------------------------------------------------------------------
\* main, lines 269-283: one iteration of the pass loop up to the call of
\* runScheduler (whose lines 304-306 only read).
StartPass ==
    /\ pc = "pass"
    /\ pass_i < num_passes
    /\ already_played_set' = FreshSets
    /\ rs_weeks' = PassWeeks(pass_i)
    /\ w' = 0
    /\ pc' = "week"
    /\ UNCHANGED <<names, weeks, debug_mode, trials, trial, data,
                   retries_needed, dead_ends, schedule, s, pass_i, i,
                   unscheduled_teams, scheduled_teams, retVal, retry>>

\* runScheduler, lines 310-316: a new week is started
StartWeek ==
    /\ pc = "week"
    /\ w < rs_weeks
    /\ unscheduled_teams' = names
    /\ scheduled_teams' = {}
    /\ s' = [s EXCEPT !.schedule = Append(@, {})]
    /\ i' = 0
    /\ pc' = "matchup"
    /\ UNCHANGED <<names, weeks, debug_mode, trials, trial, data,
                   retries_needed, dead_ends, schedule, already_played_set,
                   pass_i, rs_weeks, w, retVal, retry>>

\* runScheduler, lines 321-381: one matchup is determined and recorded
Matchup(next_team, match) ==
    /\ pc = "matchup"
    /\ i < iter_per_week
    /\ next_team \in unscheduled_teams
    /\ DrawnTeam(next_team)
    /\ DrawnMatch(match)
    /\ match \in Choices(next_team, AfterPop(next_team),
                         scheduled_teams \cup {next_team})
    /\ unscheduled_teams' = RemoveMatch(AfterPop(next_team), match)
    /\ scheduled_teams' = scheduled_teams \cup {next_team, match}
    /\ schedule' = setMatchSchedules(next_team, match)
    /\ already_played_set' = setMatchSets(next_team, match)
    /\ s' = AddMatchup(next_team, match)
    /\ i' = i + 1
    /\ UNCHANGED <<names, weeks, debug_mode, trials, trial, data,
                   retries_needed, dead_ends, pass_i, rs_weeks, w, retVal,
                   retry, pc>>

\* runScheduler, lines 348/372 and 389-393: random.choice on an empty list
\* raises IndexError, runScheduler returns False; main, lines 275-283: the
\* pass loop is left (break, or the last pass leaves retry True).
DeadEnd(next_team) ==
    /\ pc = "matchup"
    /\ i < iter_per_week
    /\ next_team \in unscheduled_teams
    /\ DrawnTeam(next_team)
    /\ Choices(next_team, AfterPop(next_team),
               scheduled_teams \cup {next_team}) = {}
    /\ unscheduled_teams' = AfterPop(next_team)
    /\ scheduled_teams' = scheduled_teams \cup {next_team}
    /\ retVal' = FALSE
    /\ dead_ends' = dead_ends + 1
    /\ pc' = "failed"
    /\ UNCHANGED <<names, weeks, debug_mode, trials, trial, data,
                   retries_needed, schedule, already_played_set, s, pass_i,
                   rs_weeks, w, i, retry>>

\* runScheduler, line 384: the matchup loop is complete
EndWeek ==
    /\ pc = "matchup"
    /\ i = iter_per_week
    /\ s' = IncrementIndex
    /\ w' = w + 1
    /\ pc' = "week"
    /\ UNCHANGED <<names, weeks, debug_mode, trials, trial, data,
                   retries_needed, dead_ends, schedule, already_played_set,
                   pass_i, rs_weeks, i, unscheduled_teams, scheduled_teams,
                   retVal, retry>>

\* runScheduler, line 387, and main, lines 274-283: the pass succeeded
PassDone ==
    /\ pc = "week"
    /\ w = rs_weeks
    /\ retVal' = TRUE
    /\ IF pass_i < num_passes - 1
       THEN /\ pass_i' = pass_i + 1
            /\ pc' = "pass"
            /\ retry' = retry
       ELSE /\ pass_i' = pass_i
            /\ pc' = "success"
            /\ retry' = FALSE
    /\ UNCHANGED <<names, weeks, debug_mode, trials, trial, data,
                   retries_needed, dead_ends, schedule, already_played_set, s,
                   rs_weeks, w, i, unscheduled_teams, scheduled_teams>>

\* main, lines 286-290 and back to line 266: reset after a dead end
Restart ==
    /\ pc = "failed"
    /\ ~ retVal
    /\ retries_needed < MaxRetries
    /\ schedule' = FreshSchedules
    /\ already_played_set' = FreshSets
    /\ s' = FreshWeeklySchedule
    /\ retries_needed' = RetriesIncremented
    /\ pass_i' = 0
    /\ rs_weeks' = 0
    /\ w' = 0
    /\ i' = 0
    /\ unscheduled_teams' = {}
    /\ scheduled_teams' = {}
    /\ pc' = "pass"
    /\ UNCHANGED <<names, weeks, debug_mode, trials, trial, data, dead_ends,
                   retVal, retry>>

\* main, lines 286 (not taken), 266 (loop left) and 294
MainReturn ==
    /\ pc = "success"
    /\ retVal
    /\ ~ retry
    /\ data' = Append(data, retries_needed)
    /\ pc' = "done"
    /\ UNCHANGED <<names, weeks, debug_mode, trials, trial, retries_needed,
                   dead_ends, schedule, already_played_set, s, pass_i,
                   rs_weeks, w, i, unscheduled_teams, scheduled_teams, retVal,
                   retry>>

\* preMain, lines 232-235, and main, lines 258-263: the next trial
NextTrial ==
    /\ pc = "done"
    /\ debug_mode
    /\ trial + 1 < trials
    /\ trial' = trial + 1
    /\ retries_needed' = RetriesReset
    /\ MainEntered
    /\ UNCHANGED <<names, weeks, debug_mode, trials, data>>

Next ==
    \/ StartPass
    \/ StartWeek
    \/ \E next_team \in unscheduled_teams, match \in unscheduled_teams :
          Matchup(next_team, match)
    \/ \E next_team \in unscheduled_teams : DeadEnd(next_team)
    \/ EndWeek
    \/ PassDone
    \/ Restart
    \/ MainReturn

\* preMain, lines 240-241, metaWrapper, line 197, and preMain, lines 203-235
\* or 203-245, with main, lines 258-263: the user answers Y after a debug
\* session and preMain runs again, in debug mode or in standard execution.
\* data is emptied (line 205); retries_needed is reset only by the trial loop
\* of debug mode (line 234).
RunAgain ==
    /\ pc = "done"
    /\ debug_mode
    /\ trial + 1 = trials
    /\ \E n \in TeamCounts : names' = 1..n
    /\ weeks' \in 1..MaxTrialWeeks
    /\ debug_mode' \in BOOLEAN
    /\ trials' \in IF debug_mode' THEN 1..MaxTrials ELSE {1}
    /\ trial' = 0
    /\ data' = <<>>
    /\ retries_needed' = IF debug_mode' THEN RetriesReset ELSE retries_needed
    /\ schedule' = [t \in names' |-> <<>>]
    /\ already_played_set' = [t \in names' |-> {}]
    /\ s' = FreshWeeklySchedule
    /\ pass_i' = 0
    /\ rs_weeks' = 0
    /\ w' = 0
    /\ i' = 0
    /\ unscheduled_teams' = {}
    /\ scheduled_teams' = {}
    /\ retVal' = TRUE
    /\ retry' = TRUE
    /\ dead_ends' = 0
    /\ pc' = "pass"

NextTrials ==
    \/ Next
    \/ NextTrial
    \/ RunAgain

Spec == Init /\ [][Next]_vars

SpecTrials == InitTrials /\ [][NextTrials]_vars

----------------------------------------------------------------------------
\* Vocabulary of the properties

\* the cycle (0-based) that week k (1-based) of an attempt belongs to
CycleOfWeek(k) == (k - 1) \div num_unique_matchups

AllPairs == {pr \in SUBSET names : Cardinality(pr) = 2}

\* how often the pair pr is matched in the first n weeks of the WeeklySchedule
Meetings(pr, n) == Cardinality({k \in 1..n : pr \in s.schedule[k]})

IsPerfectMatching(week) ==
    /\ Cardinality(week) = Cardinality(names) \div 2
    /\ \A m \in week : m \subseteq names /\ Cardinality(m) = 2
    /\ \A t \in names : Cardinality({m \in week : t \in m}) = 1

\* team t already has its matchup of the week under construction
PairedThisWeek(t) ==
    /\ Len(s.schedule) > s.next_index
    /\ \E m \in s.schedule[s.next_index + 1] : t \in m

\* ceil(W / (N-1)) as the least number of cycles that cover W weeks
CyclesNeeded ==
    CHOOSE k \in 1..weeks :
        /\ k * num_unique_matchups >= weeks
        /\ (k - 1) * num_unique_matchups < weeks

----------------------------------------------------------------------------
\* C1: in the schedule main returns, no unordered pair of teams is matched
\* twice within one cycle (a block of N-1 weeks, the last one possibly
\* shorter), neither in the WeeklySchedule nor in any team's own schedule.
PerCycleUniqueness ==
    pc = "done" =>
        /\ \A j \in 1..Len(s.schedule) : \A k \in 1..Len(s.schedule) :
              (j < k /\ CycleOfWeek(j) = CycleOfWeek(k))
                  => s.schedule[j] \cap s.schedule[k] = {}
        /\ \A t \in names :
              \A j \in 1..Len(schedule[t]) : \A k \in 1..Len(schedule[t]) :
                  (j < k /\ CycleOfWeek(j) = CycleOfWeek(k))
                      => schedule[t][j] # schedule[t][k]

\* four teams over four weeks: a full cycle and a week of the next one returned
TwoCyclesReturned ==
    pc = "done" /\ Cardinality(names) = 4 /\ weeks = 4

\* C2: every committed week consists of exactly N/2 matchups of two distinct
\* teams, with every team in exactly one of them, and no team's schedule
\* names the team itself.
PerfectMatching ==
    /\ \A k \in 1..s.next_index : IsPerfectMatching(s.schedule[k])
    /\ \A t \in names : \A k \in 1..Len(schedule[t]) : schedule[t][k] # t

ThreeWeeksCommitted ==
    pc = "week" /\ s.next_index = 3 /\ Cardinality(names) = 6

\* C3: when main has succeeded, entry k of X's schedule is Y exactly when
\* entry k of Y's schedule is X.
Symmetry ==
    pc = "done" =>
        \A X \in names : \A k \in 1..Len(schedule[X]) :
            /\ schedule[X][k] \in names
            /\ k <= Len(schedule[schedule[X][k]])
            /\ schedule[schedule[X][k]][k] = X

FourTeamsThreeWeeksDone ==
    pc = "done" /\ Cardinality(names) = 4 /\ weeks = 3

\* C4: when a pass has run its full N-1 weeks, the already_played_set of every
\* team holds all other teams, and the N-1 entries the pass added to the
\* team's schedule are all other teams, each once.
CycleCompleteness ==
    (pc = "week" /\ w = rs_weeks /\ rs_weeks = num_unique_matchups) =>
        \A t \in names :
            /\ already_played_set[t] = names \ {t}
            /\ Len(schedule[t]) >= num_unique_matchups
            /\ {schedule[t][k] : k \in (Len(schedule[t]) - num_unique_matchups + 1)
                                        ..Len(schedule[t])} = names \ {t}

FullCycleOfSixRun ==
    pc = "week" /\ w = rs_weeks /\ rs_weeks = 5 /\ Cardinality(names) = 6

\* C5: in the schedule main returns, after any number n of weeks every pair
\* has met n div (N-1) times or once more, and exactly n div (N-1) times when
\* n is a whole number of cycles; so no pair meets a (k+1)-th time before
\* every pair has met k times.
BalancedMeetings ==
    pc = "done" =>
        \A n \in 0..Len(s.schedule) : \A pr \in AllPairs :
            /\ Meetings(pr, n) >= n \div num_unique_matchups
            /\ Meetings(pr, n) <= (n \div num_unique_matchups) + 1
            /\ (n % num_unique_matchups = 0)
                  => Meetings(pr, n) = n \div num_unique_matchups

\* four teams, five weeks: a full cycle and two weeks of the second
PartialSecondCycleReturned ==
    pc = "done" /\ Cardinality(names) = 4 /\ weeks = 5

\* C6: when main has succeeded, every team's schedule has length W, the
\* WeeklySchedule holds W weeks and next_index is W.
ResultLength ==
    pc = "done" =>
        /\ \A t \in names : Len(schedule[t]) = weeks
        /\ Len(s.schedule) = weeks
        /\ s.next_index = weeks

SucceededAfterDeadEnd ==
    pc = "done" /\ retries_needed > 0

\* C7: an attempt runs ceil(W/(N-1)) passes; every pass but the last is asked
\* for N-1 weeks, the last for N-1 weeks when N-1 divides W and for
\* W mod (N-1) weeks otherwise, so that the weeks asked for sum to W.
PassArithmetic ==
    /\ (pc \in {"week", "matchup"}) =>
          /\ pass_i < CyclesNeeded
          /\ rs_weeks = (IF pass_i < CyclesNeeded - 1 THEN num_unique_matchups
                         ELSE IF weeks % num_unique_matchups = 0
                              THEN num_unique_matchups
                              ELSE weeks % num_unique_matchups)
          /\ (pass_i = CyclesNeeded - 1)
                => pass_i * num_unique_matchups + rs_weeks = weeks
    /\ (pc \in {"success", "done"}) => pass_i = CyclesNeeded - 1

LastPassPartial ==
    /\ pc = "week"
    /\ Cardinality(names) = 4
    /\ pass_i = 1
    /\ rs_weeks = 2

\* C8: a dead end, in whatever pass, ends the passes of the attempt, and the
\* step that follows replaces every team by a fresh one and the
\* WeeklySchedule by an empty one, adds exactly 1 to retries_needed and
\* resumes at the first pass with no week committed.
FullRestartStep ==
    /\ (retVal /\ ~ retVal') => (pc' = "failed" /\ pass_i' = pass_i)
    /\ (pc = "failed") =>
          /\ schedule' = [t \in names |-> <<>>]
          /\ already_played_set' = [t \in names |-> {}]
          /\ s' = [schedule |-> <<>>, next_index |-> 0]
          /\ retries_needed' = retries_needed + 1
          /\ pc' = "pass"
          /\ pass_i' = 0

FullRestart == [][FullRestartStep]_vars

\* eight teams, eight weeks: the second pass is one week long and cannot
\* fail, so the dead end restarted from was in the first, non-final pass
RestartedFromNonFinalPass ==
    /\ pc = "pass"
    /\ pass_i = 0
    /\ retries_needed > 0
    /\ Cardinality(names) = 8
    /\ weeks = 8

\* C9: the count a trial of a debug session appends to data is not negative,
\* is the number of dead ends hit since that trial's call of main, and is 0
\* exactly when the trial met no dead end.
RetryCountReporting ==
    (pc = "done" /\ debug_mode) =>
        /\ Len(data) = trial + 1
        /\ data[Len(data)] >= 0
        /\ data[Len(data)] = dead_ends
        /\ (data[Len(data)] = 0) <=> (dead_ends = 0)

\* a trial without dead end recorded after a trial with one
CleanTrialAfterRetriedTrial ==
    pc = "done" /\ debug_mode /\ Len(data) = 2 /\ data[1] > 0 /\ data[2] = 0

\* C10 as stated: in every state each team's schedule is as long as
\* next_index.
HistoryLengthIsNextIndex ==
    \A t \in names : Len(schedule[t]) = s.next_index

\* C10, amended: a team's schedule is as long as next_index, plus one while
\* the team already has its matchup of the week under construction; between
\* weeks no week is under construction.
LedgerInvariant ==
    /\ \A t \in names :
          Len(schedule[t]) = s.next_index + (IF PairedThisWeek(t) THEN 1 ELSE 0)
    /\ (pc \in {"pass", "week", "success", "done"})
          => Len(s.schedule) = s.next_index

MidWeekOfSecondWeek ==
    pc = "matchup" /\ i = 1 /\ s.next_index = 1 /\ Cardinality(names) = 4

\* C11: wherever the code skips the viability check (more than one team is
\* left besides the picker, and their number minus one exceeds the weeks
\* completed in the pass plus one), testMatch returns True for every
\* potential match, so running the check would leave the same matches.
SkippedCheckIsSound ==
    pc = "matchup" =>
        \A p \in unscheduled_teams :
            (Cardinality(AfterPop(p)) # 1 /\ ~ CheckApplied(AfterPop(p))) =>
                /\ Cardinality(AfterPop(p)) - 1 > w + 1
                /\ \A c \in PotentialMatches(p, AfterPop(p)) :
                      testMatch(c, AfterPop(p))
                /\ RefinedMatches(p, AfterPop(p))
                      = {c \in PotentialMatches(p, AfterPop(p)) :
                            testMatch(c, AfterPop(p))}

\* six teams, first matchup of the third week: five teams are left besides
\* the picker and the check is skipped (4 > 3)
CheckSkippedInThirdWeek ==
    /\ pc = "matchup"
    /\ Cardinality(names) = 6
    /\ w = 2
    /\ i = 0
    /\ \E p \in unscheduled_teams :
          /\ ~ CheckApplied(AfterPop(p))
          /\ PotentialMatches(p, AfterPop(p)) # {}

\* C12 as stated: where the viability check is applied for picker p, the set
\* U handed to testMatch holds p as well as the candidate c, and c is
\* rejected exactly when some t in R = U \ {c} has R within
\* already_played_set[t] \cup {t}.
ViabilityInputHoldsPicker ==
    pc = "matchup" =>
        \A p \in unscheduled_teams :
            (Cardinality(AfterPop(p)) # 1 /\ CheckApplied(AfterPop(p))) =>
                \A c \in PotentialMatches(p, AfterPop(p)) :
                    LET U == AfterPop(p) \cup {p}
                        R == U \ {c}
                    IN  /\ p \in AfterPop(p)
                        /\ c \in AfterPop(p)
                        /\ (c \notin RefinedMatches(p, AfterPop(p)))
                              <=> \E t \in R :
                                    R \subseteq (already_played_set[t] \cup {t})

\* C12, amended: the set U handed to testMatch is unscheduled_teams after the
\* picker was popped; it holds the candidate c and not the picker, and c is
\* rejected exactly when some t in R = U \ {c} has R within
\* already_played_set[t] \cup {t}.
ViabilityCheckInput ==
    pc = "matchup" =>
        \A p \in unscheduled_teams :
            (Cardinality(AfterPop(p)) # 1 /\ CheckApplied(AfterPop(p))) =>
                \A c \in PotentialMatches(p, AfterPop(p)) :
                    LET U == AfterPop(p)
                        R == U \ {c}
                    IN  /\ p \notin U
                        /\ c \in U
                        /\ (c \notin RefinedMatches(p, U))
                              <=> \E t \in R :
                                    R \subseteq (already_played_set[t] \cup {t})

\* six teams: the check is applied and rejects a potential match
CandidateRejected ==
    /\ pc = "matchup"
    /\ Cardinality(names) = 6
    /\ \E p \in unscheduled_teams :
          /\ Cardinality(AfterPop(p)) # 1
          /\ CheckApplied(AfterPop(p))
          /\ \E c \in PotentialMatches(p, AfterPop(p)) :
                c \notin RefinedMatches(p, AfterPop(p))

\* C13: whenever one team is left besides the picker, so that lines 331-332
\* take it without any filtering, that team is not in the picker's
\* already_played_set of the current pass.
ForcedLastMatchupLegal ==
    (pc = "matchup" /\ Cardinality(unscheduled_teams) = 2) =>
        \A p \in unscheduled_teams : \A q \in AfterPop(p) :
            /\ Choices(p, AfterPop(p), scheduled_teams \cup {p}) = {q}
            /\ q \notin already_played_set[p]
            /\ p \notin already_played_set[q]

\* six teams, last matchup of the fifth and last week of a cycle
LastMatchupOfLastWeek ==
    /\ pc = "matchup"
    /\ Cardinality(names) = 6
    /\ Cardinality(unscheduled_teams) = 2
    /\ w = 4
    /\ i = 2

\* the teams without a matchup in the week under construction
NotYetPaired == names \ UNION s.schedule[s.next_index + 1]

\* C14 as stated: whenever runScheduler has hit a dead end, some team not yet
\* paired in the week (the picker counted) has already played every other
\* team not yet paired in the week.
DeadEndMeansStrandedTeam ==
    pc = "failed" =>
        \E t \in NotYetPaired :
            (NotYetPaired \ {t}) \subseteq already_played_set[t]

\* C14, amended: whenever runScheduler has hit a dead end, more than one team
\* was left besides the picker p, and every team c among them either has
\* already played p or is such that, with p and c paired, some team t left
\* would have already played every other team left.  No team need be without
\* an opponent before p chooses.
DeadEndMeansNoViableMatch ==
    pc = "failed" =>
        \E p \in NotYetPaired \cap scheduled_teams :
            /\ NotYetPaired = unscheduled_teams \cup {p}
            /\ Cardinality(unscheduled_teams) > 1
            /\ \A c \in unscheduled_teams :
                  \/ c \in already_played_set[p]
                  \/ \E t \in unscheduled_teams \ {c} :
                        (unscheduled_teams \ {c, t}) \subseteq already_played_set[t]

\* a dead end although every team not yet paired still has an opponent it has
\* not played among the teams not yet paired
DeadEndWithoutStrandedTeam ==
    /\ pc = "failed"
    /\ \A t \in NotYetPaired :
          \E o \in NotYetPaired \ {t} : o \notin already_played_set[t]

\* C15: at a matchup, runScheduler returns False for picker p exactly when
\* more than one team is left besides p and the list matches is empty when
\* the match is chosen; otherwise a match is committed.  After a dead end no
\* step of the week, the pass or main's pass loop is taken: only the reset
\* of main remains.
SingleFailureMode ==
    /\ (pc = "matchup" /\ i < iter_per_week) =>
          \A p \in unscheduled_teams :
              DrawnTeam(p) =>
                  LET EmptyAtSelection ==
                          /\ Cardinality(AfterPop(p)) > 1
                          /\ RefinedMatches(p, AfterPop(p)) = {}
                  IN  IF EmptyAtSelection
                      THEN /\ ENABLED DeadEnd(p)
                           /\ ~ ENABLED (\E c \in AfterPop(p) : Matchup(p, c))
                      ELSE /\ ~ ENABLED DeadEnd(p)
                           /\ ENABLED (\E c \in AfterPop(p) : Matchup(p, c))
    /\ (pc = "failed") =>
          /\ ~ retVal
          /\ ~ ENABLED (\/ StartPass
                        \/ StartWeek
                        \/ \E p \in unscheduled_teams, c \in unscheduled_teams :
                              Matchup(p, c)
                        \/ \E p \in unscheduled_teams : DeadEnd(p)
                        \/ EndWeek
                        \/ PassDone
                        \/ MainReturn)

\* a dead end in the sixth week of a pass of eight teams
DeadEndInSixthWeek ==
    pc = "failed" /\ Cardinality(names) = 8 /\ w = 5

\* the matches of picker p that the claim calls preferred: matches left
\* after the refinement for which neither set that the matchup would produce
\* equals the already_played_set of a team already paired this week
PreferredAgainstPaired(p) ==
    {c \in RefinedMatches(p, AfterPop(p)) :
        \A t \in scheduled_teams :
            /\ already_played_set[t] # already_played_set[p] \cup {c}
            /\ already_played_set[t] # already_played_set[c] \cup {p}}

\* C16: at a matchup that is neither the first nor the last of its week, if
\* some match left after the refinement is preferred, a preferred one can be
\* committed as the picker's opponent and no step commits one that is not
\* preferred; an opponent that is not preferred is committed only when none
\* is preferred.
PreferenceHonoured ==
    (pc = "matchup" /\ i >= 1 /\ Cardinality(unscheduled_teams) > 2) =>
        /\ scheduled_teams = names \ NotYetPaired
        /\ \A p \in unscheduled_teams :
              LET preferred == PreferredAgainstPaired(p)
                  others == AfterPop(p) \ preferred
              IN  (preferred # {}) =>
                      /\ ~ ENABLED (\E c \in others : Matchup(p, c))
                      /\ DrawnTeam(p)
                            => ENABLED (\E c \in preferred : Matchup(p, c))

\* a picker for whom some matches left are preferred and some are not
PreferredAndOtherMatches ==
    /\ pc = "matchup"
    /\ i >= 1
    /\ Cardinality(unscheduled_teams) > 2
    /\ \E p \in unscheduled_teams :
          /\ PreferredAgainstPaired(p) # {}
          /\ PreferredAgainstPaired(p) # RefinedMatches(p, AfterPop(p))

\* C17: for every picker p and potential match c, neither
\* already_played_set[p] \cup {c} nor already_played_set[c] \cup {p} equals
\* already_played_set[p]; so at the first matchup of a week, where
\* scheduled_teams holds only p, every match left is preferred, and at every
\* matchup the preferred matches are the same with and without p in
\* scheduled_teams.
UniqueAgainstPicker ==
    pc = "matchup" =>
        \A p \in unscheduled_teams :
            /\ \A c \in PotentialMatches(p, AfterPop(p)) :
                  /\ already_played_set[p] \cup {c} # already_played_set[p]
                  /\ already_played_set[c] \cup {p} # already_played_set[p]
                  /\ setIsUnique(already_played_set[p] \cup {c}, {p})
                  /\ setIsUnique(already_played_set[c] \cup {p}, {p})
            /\ (i = 0) =>
                  /\ scheduled_teams = {}
                  /\ PreferredMatches(p, AfterPop(p), scheduled_teams \cup {p})
                        = RefinedMatches(p, AfterPop(p))
            /\ PreferredMatches(p, AfterPop(p), scheduled_teams \cup {p})
                  = PreferredMatches(p, AfterPop(p), scheduled_teams)

\* six teams, second matchup of the third week
SecondMatchupOfThirdWeek ==
    /\ pc = "matchup"
    /\ Cardinality(names) = 6
    /\ w = 2
    /\ i = 1
    /\ \E p \in unscheduled_teams : PotentialMatches(p, AfterPop(p)) # {}

\* the steps that build the schedule: passes, weeks and matchups
BuildStep ==
    \/ StartPass
    \/ StartWeek
    \/ \E p \in unscheduled_teams, c \in unscheduled_teams : Matchup(p, c)
    \/ \E p \in unscheduled_teams : DeadEnd(p)
    \/ EndWeek
    \/ PassDone

\* C18: in every state in which main has not returned, a step is enabled: a
\* step of the passes, weeks and matchups while a pass is run, the reset
\* after a dead end (as long as retries_needed is below the cap MaxRetries
\* of the model), the return once the last pass has succeeded.  Once the last
\* pass has succeeded no week is built and no reset happens, and after the
\* return no step is enabled at all.
CompleteIsSoleTerminal ==
    /\ (pc \in {"pass", "week", "matchup"}) => ENABLED BuildStep
    /\ (pc = "failed" /\ retries_needed < MaxRetries) => ENABLED Restart
    /\ (pc = "success") => ENABLED MainReturn
    /\ (pc \in {"success", "done"}) => ~ ENABLED (BuildStep \/ Restart)
    /\ (pc = "done") => ~ ENABLED Next
    /\ pc \in {"pass", "week", "matchup", "failed", "success", "done"}

\* main has returned a schedule of six teams over five weeks
SixTeamsFiveWeeksReturned ==
    pc = "done" /\ Cardinality(names) = 6 /\ weeks = 5 /\ ~ ENABLED Next

\* The dead end that the docstring (lines 53-64) describes for six teams, the
\* pairs not yet played forming two triangles after three weeks, is one the
\* preference of lines 351-363 excludes: with up to six teams runScheduler
\* never hits a dead end.  (A pass of six teams has at most five weeks and
\* every pass starts from empty already_played_sets, so MaxWeeks covers every
\* pass there is.)
NoDeadEndUpToSixTeams ==
    (Cardinality(names) <= 6) => (pc # "failed" /\ retries_needed = 0)

\* C21: with 2 or 4 teams runScheduler never hits a dead end, whatever the
\* number of weeks and the random draws: main never resets, retries_needed
\* stays 0 and 0 is what main records; with 4 teams and 3 weeks the schedule
\* returned has 2 matchups in every week and every one of the 6 pairs
\* exactly once.
NoDeadEndUpToFourTeams ==
    (Cardinality(names) <= 4) =>
        /\ pc # "failed"
        /\ retVal
        /\ dead_ends = 0
        /\ retries_needed = 0
        /\ (pc = "done") => data = <<0>>
        /\ (pc = "done" /\ Cardinality(names) = 4 /\ weeks = 3) =>
              /\ Cardinality(AllPairs) = 6
              /\ \A k \in 1..3 : Cardinality(s.schedule[k]) = 2
              /\ \A pr \in AllPairs : Meetings(pr, 3) = 1

\* four teams, five weeks: main returns after a full cycle and two weeks of
\* the next one, with 0 recorded
FourTeamsSecondCycleWithoutRetry ==
    /\ pc = "done"
    /\ Cardinality(names) = 4
    /\ weeks = 5
    /\ s.next_index = 5
    /\ data = <<0>>

====
